---- MODULE Spec2Model ----
(***************************************************************************)
(* Behavioural model of dephell's setup.py converter                       *)
(* (dephell/converters/setuppy.py): SetupPyConverter.can_parse, load,      *)
(* dumps and their private helpers.                                        *)
(*                                                                         *)
(* Text is modelled as a sequence of tokens.  A token is a piece of text   *)
(* that the converter's regular expressions and substring tests never cut  *)
(* in the middle: "setup" is the five letters, "x" any other lower-case    *)
(* letter, "return " the keyword with its trailing blank.                  *)
(***************************************************************************)
EXTENDS Integers, Sequences, FiniteSets, TLC

VARIABLES pc, args, script, log, trace, info, ret

vars == <<pc, args, script, log, trace, info, ret>>

(***************************************************************************)
(* Bounds of the model.                                                    *)
(***************************************************************************)
MaxSrc == 3
MaxContent == 3

(***************************************************************************)
(* Generic helpers.                                                        *)
(***************************************************************************)
SeqsUpTo(S, n) == UNION {[1..k -> S] : k \in 0..n}

Range(s) == {s[i] : i \in 1..Len(s)}

\* Python's None for a string-valued attribute.
NoneVal == <<"<None>">>

(***************************************************************************)
(* _execute, lines 259-270: the rewriting of the script's source.          *)
(***************************************************************************)
\* The tokens a script's source is made of.
SourceTokens == {"setup", "(", ".", "_", "x", "return "}

\* The text 'global _dist; _dist = dict(' that replaces 'setup('.
CaptureToken == "global _dist; _dist = dict("

\* [a-z] and [a-z0-9.] of the first pattern, [_a-z] and [a-z0-9._] of the
\* third, as sets of tokens.
DottedFirst == {"x", "setup"}
DottedRest == {"x", "setup", "."}
NameFirst == {"x", "setup", "_"}
NameRest == {"x", "setup", ".", "_"}

\* The first position from i on whose token is outside cls (Len(s) + 1 when
\* there is none): where a greedy run of cls tokens starting at i stops.
RECURSIVE RunEnd(_, _, _)
RunEnd(s, i, cls) ==
    IF i > Len(s) \/ s[i] \notin cls THEN i ELSE RunEnd(s, i + 1, cls)

\* sub(r'[a-z][a-z0-9.]*\.setup\(', 'setup(', source), scanning from i.
RECURSIVE RemoveDottedFrom(_, _)
RemoveDottedFrom(s, i) ==
    IF i > Len(s) THEN <<>>
    ELSE LET q == RunEnd(s, i + 1, DottedRest)
         IN  IF /\ s[i] \in DottedFirst
                /\ q <= Len(s)
                /\ s[q] = "("
                /\ q - 2 >= i + 1
                /\ s[q - 1] = "setup"
                /\ s[q - 2] = "."
             THEN <<"setup", "(">> \o RemoveDottedFrom(s, q + 1)
             ELSE <<s[i]>> \o RemoveDottedFrom(s, i + 1)

RemoveDotted(s) == RemoveDottedFrom(s, 1)

\* new_source.replace('return setup(', 'setup('), scanning from i.
RECURSIVE RemoveReturnFrom(_, _)
RemoveReturnFrom(s, i) ==
    IF i > Len(s) THEN <<>>
    ELSE IF /\ i + 2 <= Len(s)
            /\ s[i] = "return "
            /\ s[i + 1] = "setup"
            /\ s[i + 2] = "("
         THEN <<"setup", "(">> \o RemoveReturnFrom(s, i + 3)
         ELSE <<s[i]>> \o RemoveReturnFrom(s, i + 1)

RemoveReturn(s) == RemoveReturnFrom(s, 1)

\* sub(r'([_a-z][a-z0-9._]*)setup\(', r'setup\1(', new_source), from i.
RECURSIVE RenameFrom(_, _)
RenameFrom(s, i) ==
    IF i > Len(s) THEN <<>>
    ELSE LET q == RunEnd(s, i + 1, NameRest)
         IN  IF /\ s[i] \in NameFirst
                /\ q <= Len(s)
                /\ s[q] = "("
                /\ q - 1 >= i + 1
                /\ s[q - 1] = "setup"
             THEN <<"setup">> \o SubSeq(s, i, q - 2) \o <<"(">>
                      \o RenameFrom(s, q + 1)
             ELSE <<s[i]>> \o RenameFrom(s, i + 1)

Rename(s) == RenameFrom(s, 1)

\* new_source.replace('setup(', 'global _dist; _dist = dict('), from i.
RECURSIVE CaptureFrom(_, _)
CaptureFrom(s, i) ==
    IF i > Len(s) THEN <<>>
    ELSE IF i + 1 <= Len(s) /\ s[i] = "setup" /\ s[i + 1] = "("
         THEN <<CaptureToken>> \o CaptureFrom(s, i + 2)
         ELSE <<s[i]>> \o CaptureFrom(s, i + 1)

Capture(s) == CaptureFrom(s, 1)

\* new_source of _execute: the four rewritings in the order of the code.
Rewrite(source) == Capture(Rename(RemoveReturn(RemoveDotted(source))))

\* The rewritten source holds the assignment to the capture variable.
HasCapture(new_source) == CaptureToken \in Range(new_source)

(***************************************************************************)
(* The metadata object (a Distribution) and the tolerant accessors.        *)
(*                                                                         *)
(* info.metadata[f] and info.top[f] are the attribute f of the metadata    *)
(* sub-object and of the object itself: NoneVal or a text.  info.lists[f]  *)
(* is what the getter get_f(), or the attribute f, yields for a list       *)
(* field: nothing, one string, or a list of strings.  extras_require and   *)
(* entry_points are mappings, kept as sequences of <<key, values>> in the  *)
(* order of iteration.                                                     *)
(***************************************************************************)
GetFields == {"name", "version", "description", "license", "python_requires",
              "url", "download_url", "author", "author_email",
              "maintainer", "maintainer_email"}

ListFields == {"keywords", "classifiers", "platforms", "dependency_links",
               "install_requires"}

NoList == [kind |-> "none", items |-> <<>>]
StrList(text) == [kind |-> "str", items |-> <<text>>]
List(items) == [kind |-> "list", items |-> items]

\* Python's truth value of an attribute: None and '' are false.
Truthy(value) == value # NoneVal /\ value # <<>>

\* str.strip(): the text without its leading and trailing blanks.
RECURSIVE LStrip(_)
LStrip(t) == IF t # <<>> /\ Head(t) = " " THEN LStrip(Tail(t)) ELSE t

RECURSIVE RStrip(_)
RStrip(t) ==
    IF t # <<>> /\ t[Len(t)] = " " THEN RStrip(SubSeq(t, 1, Len(t) - 1)) ELSE t

Strip(t) == RStrip(LStrip(t))

\* str.split(): the maximal runs of tokens between blanks.
RECURSIVE SplitFrom(_, _, _)
SplitFrom(t, i, word) ==
    IF i > Len(t) THEN (IF word = <<>> THEN <<>> ELSE <<word>>)
    ELSE IF t[i] = " "
         THEN (IF word = <<>> THEN <<>> ELSE <<word>>) \o SplitFrom(t, i + 1, <<>>)
         ELSE SplitFrom(t, i + 1, Append(word, t[i]))

Split(t) == SplitFrom(t, 1, <<>>)

\* ' '.join(words)
RECURSIVE Join(_, _)
Join(words, sep) ==
    IF words = <<>> THEN <<>>
    ELSE IF Len(words) = 1 THEN words[1]
    ELSE words[1] \o <<sep>> \o Join(Tail(words), sep)

\* _get, lines 288-298.
Get(msg, name) ==
    LET fromMetadata == msg.metadata[name]
        value == IF Truthy(fromMetadata) THEN fromMetadata ELSE msg.top[name]
    IN  IF ~Truthy(value) THEN <<>>
        ELSE IF value = <<"UNKNOWN">> THEN <<>>
        ELSE Strip(value)

\* _get_list, lines 300-314.
GetList(msg, name) ==
    IF name = "keywords"
    THEN Split(Join(msg.lists["keywords"].items, " "))
    ELSE LET given == msg.lists[name]
             values == IF given.kind = "str" THEN Split(given.items[1])
                       ELSE given.items
         IN  IF values = <<>> THEN <<>>
             ELSE LET Keep(value) == value # <<"UNKNOWN">> /\ Strip(value) # <<>>
                  IN  SelectSeq(values, Keep)

(***************************************************************************)
(* Requirement strings, links and extras keys, as load reads them.         *)
(***************************************************************************)
\* The tokens of a project name: "a-b" is <<"a", "-", "b">>.
NameTokens == {"a", "b", "A", "-"}

\* Requirement(req).name: the name the requirement string starts with.
ReqName(text) == SubSeq(text, 1, RunEnd(text, 1, NameTokens) - 1)

\* Requirement(req) raises for a string that does not start with a name.
ValidReq(text) == ReqName(text) # <<>>

\* The tokens of t after the first occurrence of the token sep.
RECURSIVE After(_, _)
After(t, sep) ==
    IF t = <<>> THEN <<>>
    ELSE IF Head(t) = sep THEN Tail(t) ELSE After(Tail(t), sep)

\* The tokens of t before the first occurrence of the token sep.
RECURSIVE Before(_, _)
Before(t, sep) ==
    IF t = <<>> \/ Head(t) = sep THEN <<>>
    ELSE <<Head(t)>> \o Before(Tail(t), sep)

\* parse_link(url).name: the egg fragment, else what the path gives.
LinkName(url) == IF "#egg=" \in Range(url) THEN After(url, "#egg=") ELSE url

\* parsed.name.split('-')[0], line 128.
LinkKey(url) == Before(LinkName(url), "-")

\* urls.get(name) for the table of lines 125-129: the last link of that key.
UrlOf(links, name) ==
    LET hits == {i \in 1..Len(links) : LinkKey(links[i]) = name}
    IN  IF hits = {} THEN NoneVal
        ELSE links[CHOOSE i \in hits : \A j \in hits : j <= i]

\* BaseConverter._split_extra_and_marker: 'extra:marker' into its parts.
SplitExtraAndMarker(key) ==
    IF ":" \in Range(key)
    THEN [extra |-> Before(key, ":"), marker |-> After(key, ":")]
    ELSE [extra |-> key, marker |-> NoneVal]

\* Line 143 without its special case: 'dev' treated as any other extras name.
ExtraEnvsWithMain(extra) == {<<"main">>, extra}

\* envs of line 143.
ExtraEnvs(extra) ==
    IF extra = <<"dev">> THEN {extra} ELSE {<<"main">>, extra}

\* The dependencies attached for install_requires, lines 132-138: one call
\* of DependencyMaker.from_requirement per requirement, with the keyword
\* arguments the call passes.
InstallDeps(msg) ==
    LET reqs == GetList(msg, "install_requires")
        links == GetList(msg, "dependency_links")
    IN  [i \in 1..Len(reqs) |->
            [req |-> reqs[i],
             passed |-> {"url"},
             url |-> UrlOf(links, ReqName(reqs[i])),
             marker |-> NoneVal,
             envs |-> {}]]

\* The dependencies attached for one key of extras_require, lines 141-151.
ExtraDeps(key, reqs) ==
    LET split == SplitExtraAndMarker(key)
    IN  [i \in 1..Len(reqs) |->
            [req |-> reqs[i],
             passed |-> {"marker", "envs"},
             url |-> NoneVal,
             marker |-> split.marker,
             envs |-> ExtraEnvs(split.extra)]]

RECURSIVE ExtrasDeps(_)
ExtrasDeps(extras) ==
    IF extras = <<>> THEN <<>>
    ELSE ExtraDeps(extras[1][1], extras[1][2]) \o ExtrasDeps(Tail(extras))

\* The entry points of lines 118-122.
RECURSIVE EntryPoints(_)
EntryPoints(groups) ==
    IF groups = <<>> THEN <<>>
    ELSE [i \in 1..Len(groups[1][2]) |->
             [group |-> groups[1][1], text |-> groups[1][2][i]]]
         \o EntryPoints(Tail(groups))

\* Line 86 without the default: the declared version, empty when none.
RootVersionDeclared(msg) == Get(msg, "version")

\* version of line 86.
RootVersion(msg) ==
    IF Get(msg, "version") # <<>> THEN Get(msg, "version") ELSE <<"0.0.0">>

\* The links of lines 104-107.
RootLinks(msg) ==
    LET field == [home |-> "url", download |-> "download_url"]
    IN  [key \in {k \in {"home", "download"} : Get(msg, field[k]) # <<>>}
            |-> Get(msg, field[key])]

\* The authors of lines 110-115.
RootAuthors(msg) ==
    LET One(name) ==
            IF Get(msg, name) # <<>>
            THEN <<[name |-> Get(msg, name),
                    mail |-> Get(msg, IF name = "author" THEN "author_email"
                                      ELSE "maintainer_email")]>>
            ELSE <<>>
    IN  One("author") \o One("maintainer")

\* Some requirement string of the metadata makes Requirement(req) raise.
InvalidRequirement(msg) ==
    \/ \E text \in Range(GetList(msg, "install_requires")) : ~ValidReq(text)
    \/ \E i \in 1..Len(msg.extras_require) :
           \E text \in Range(msg.extras_require[i][2]) : ~ValidReq(text)

\* The RootDependency of load, lines 84-153.
MakeRoot(msg) ==
    [raw_name |-> Get(msg, "name"),
     version |-> RootVersion(msg),
     package_name |-> IF Get(msg, "name") # <<>> THEN Get(msg, "name")
                      ELSE NoneVal,
     description |-> Get(msg, "description"),
     license |-> Get(msg, "license"),
     keywords |-> GetList(msg, "keywords"),
     classifiers |-> GetList(msg, "classifiers"),
     platforms |-> GetList(msg, "platforms"),
     python |-> Get(msg, "python_requires"),
     links |-> RootLinks(msg),
     authors |-> RootAuthors(msg),
     entrypoints |-> EntryPoints(msg.entry_points),
     deps |-> InstallDeps(msg) \o ExtrasDeps(msg.extras_require)]

(***************************************************************************)
(* load, lines 73-153, and _execute, lines 257-286.                        *)
(*                                                                         *)
(* A script is its source text, what happens when the rewritten source is  *)
(* executed (runs), what run_setup does with the unmodified script         *)
(* (fallbacks), and the metadata object its registration call declares.    *)
(* A run tells whether control reaches the registration call and how the   *)
(* execution ends: it returns, raises an Exception, or exits (SystemExit,  *)
(* which is no Exception).  trace records what was run and how it ended:   *)
(* "exec", "call" when the registration call was reached, the exception    *)
(* that ended the execution, "run_setup" and the exception it raised.      *)
(***************************************************************************)
PrimaryRuns == [reaches : BOOLEAN, ends : {"return", "Exception", "SystemExit"}]

\* run_setup returns the distribution, lets the script's exception through,
\* or raises RuntimeError because setup() was never called.
FallbackRuns == {"distribution", "Exception", "RuntimeError"}

NoInfo == [kind |-> "none"]
Dist(meta, via) == [kind |-> "dist", dist |-> meta, via |-> via]

NoResult == [kind |-> "none"]
Raised(error) == [kind |-> "raised", error |-> error]

\* _execute without the try/except of lines 274-277: an Exception of the
\* rewritten script leaves _execute.
ExecuteOutcomeUncaught(source, run) ==
    LET new_source == Rewrite(source)
        dist_set == run.reaches /\ HasCapture(new_source)
    IN  IF new_source = source
        THEN [logged |-> <<"cannot modify source">>, executed |-> FALSE,
              raised |-> "none", captured |-> FALSE]
        ELSE IF run.ends # "return"
        THEN [logged |-> <<>>, executed |-> TRUE,
              raised |-> run.ends, captured |-> FALSE]
        ELSE IF ~dist_set
        THEN [logged |-> <<"distribution was not called">>,
              executed |-> TRUE, raised |-> "none", captured |-> FALSE]
        ELSE [logged |-> <<>>, executed |-> TRUE,
              raised |-> "none", captured |-> TRUE]

\* _execute with an except branch that gives up: after a caught Exception
\* the capture variable is not looked at and None is returned.
ExecuteOutcomeGivesUp(source, run) ==
    LET new_source == Rewrite(source)
        dist_set == run.reaches /\ HasCapture(new_source)
    IN  IF new_source = source
        THEN [logged |-> <<"cannot modify source">>, executed |-> FALSE,
              raised |-> "none", captured |-> FALSE]
        ELSE IF run.ends = "SystemExit"
        THEN [logged |-> <<>>, executed |-> TRUE,
              raised |-> "SystemExit", captured |-> FALSE]
        ELSE IF run.ends = "Exception"
        THEN [logged |-> <<"Exception: message", "distribution was not called">>,
              executed |-> TRUE, raised |-> "none", captured |-> FALSE]
        ELSE IF ~dist_set
        THEN [logged |-> <<"distribution was not called">>,
              executed |-> TRUE, raised |-> "none", captured |-> FALSE]
        ELSE [logged |-> <<>>, executed |-> TRUE,
              raised |-> "none", captured |-> TRUE]

\* _execute on a source and one run of its rewriting: the lines logged,
\* whether the rewritten source was executed, the exception that leaves
\* _execute ("none" when it returns) and whether it returns a Distribution.
ExecuteOutcome(source, run) ==
    LET new_source == Rewrite(source)
        dist_set == run.reaches /\ HasCapture(new_source)
        caught == IF run.ends = "Exception" THEN <<"Exception: message">>
                  ELSE <<>>
    IN  IF new_source = source
        THEN [logged |-> <<"cannot modify source">>, executed |-> FALSE,
              raised |-> "none", captured |-> FALSE]
        ELSE IF run.ends = "SystemExit"
        THEN [logged |-> <<>>, executed |-> TRUE,
              raised |-> "SystemExit", captured |-> FALSE]
        ELSE IF ~dist_set
        THEN [logged |-> caught \o <<"distribution was not called">>,
              executed |-> TRUE, raised |-> "none", captured |-> FALSE]
        ELSE [logged |-> caught, executed |-> TRUE,
              raised |-> "none", captured |-> TRUE]

\* info = self._execute(path=path), line 79.
Execute ==
    /\ pc = "execute"
    /\ \E run \in script.runs :
           LET out == ExecuteOutcome(script.source, run)
           IN  /\ log' = log \o out.logged
               /\ trace' = IF out.executed
                            THEN trace \o <<"exec">>
                                 \o (IF run.reaches THEN <<"call">> ELSE <<>>)
                                 \o (IF run.ends # "return" THEN <<run.ends>>
                                     ELSE <<>>)
                            ELSE trace
               /\ info' = IF out.captured THEN Dist(script.meta, "captured")
                          ELSE NoInfo
               /\ ret' = IF out.raised # "none" THEN Raised(out.raised) ELSE ret
               /\ pc' = IF out.raised # "none" THEN "done" ELSE "check"
    /\ UNCHANGED <<args, script>>

\* Line 80 without its condition: run_setup whatever _execute returned.
FallbackAlways(found) == found.kind \in {"none", "dist"}

\* if info is None, line 80.
NeedsFallback(found) == found.kind = "none"

\* info = run_setup(path.name), lines 80-82.
Fallback ==
    /\ pc = "check"
    /\ NeedsFallback(info)
    /\ \E outcome \in script.fallbacks :
           /\ trace' = trace \o <<"run_setup">>
                         \o (IF outcome # "distribution" THEN <<outcome>>
                             ELSE <<>>)
           /\ info' = IF outcome = "distribution"
                      THEN Dist(script.meta, "run_setup") ELSE info
           /\ ret' = IF outcome = "distribution" THEN ret ELSE Raised(outcome)
           /\ pc' = IF outcome = "distribution" THEN "build" ELSE "done"
    /\ UNCHANGED <<args, script, log>>

\* The rest of load, lines 84-153.
BuildRoot ==
    /\ pc \in {"check", "build"}
    /\ pc = "check" => ~NeedsFallback(info)
    /\ ret' = IF InvalidRequirement(info.dist) THEN Raised("InvalidRequirement")
              ELSE [kind |-> "root", root |-> MakeRoot(info.dist)]
    /\ pc' = "done"
    /\ UNCHANGED <<args, script, log, trace, info>>

(***************************************************************************)
(* The scripts load is called on.                                          *)
(***************************************************************************)
MaxReqs == 2
MaxExtras == 1

NoMetadata == [f \in GetFields |-> NoneVal]
NoLists == [f \in ListFields |-> NoList]

EmptyInfo ==
    [metadata |-> NoMetadata, top |-> NoMetadata, lists |-> NoLists,
     entry_points |-> <<>>, extras_require |-> <<>>]

\* Requirement strings, the last one no requirement at all.
ReqTexts == {<<"a">>, <<"b", ">=1">>, <<"a", "-", "b">>}
BadReqText == <<"[">>

\* Links as dependency_links holds them.
UrlTexts == {<<"git+", "u", "#egg=", "a", "-", "1.0">>,
             <<"u", "#egg=", "b">>,
             <<"u", "#egg=", "a", "-", "b">>,
             <<"./dir">>}

ExtraKeys == {<<"dev">>, <<"test">>, <<"dev", ":", "m">>, <<"test", ":", "m">>}

\* Values of a text attribute: absent, empty, the UNKNOWN sentinel, blank,
\* and a text with a leading blank.
TextValues == {NoneVal, <<>>, <<"UNKNOWN">>, <<" ">>, <<" ", "v">>}

\* A complete metadata object, and one whose requirement does not parse.
FullInfo ==
    [EmptyInfo EXCEPT
        !.metadata = [NoMetadata EXCEPT !["name"] = <<"a">>,
                                        !["version"] = <<"1.0">>,
                                        !["url"] = <<"home-url">>,
                                        !["author"] = <<"me">>,
                                        !["author_email"] = <<"me@x">>],
        !.lists = [NoLists EXCEPT !["keywords"] = List(<<<<"k">>>>),
                                  !["install_requires"] = List(<<<<"a">>>>)],
        !.entry_points = <<<<"console_scripts", <<<<"run = a:main">>>>>>>>,
        !.extras_require = <<<<<<"dev">>, <<<<"b", ">=1">>>>>>>>]

BadInfo ==
    [EmptyInfo EXCEPT
        !.lists = [NoLists EXCEPT !["install_requires"] = List(<<BadReqText>>)]]

\* Metadata that varies name and version, on the sub-object and on top.
NameVersionInfos ==
    {[EmptyInfo EXCEPT
         !.metadata = [NoMetadata EXCEPT !["name"] = n1, !["version"] = v1],
         !.top = [NoMetadata EXCEPT !["name"] = n2, !["version"] = v2]] :
     n1 \in TextValues, n2 \in TextValues, v1 \in TextValues, v2 \in TextValues}

\* Metadata that varies install_requires and dependency_links.
InstallInfos ==
    {[EmptyInfo EXCEPT
         !.lists = [NoLists EXCEPT !["install_requires"] = reqs,
                                   !["dependency_links"] = List(links)]] :
     reqs \in {List(r) : r \in SeqsUpTo(ReqTexts, MaxReqs)}
                  \cup {NoList, StrList(<<"a", " ", "b", ">=1">>)},
     links \in SeqsUpTo(UrlTexts, MaxReqs)}

\* Metadata that varies extras_require, beside one linked requirement.
ExtrasInfos ==
    {[EmptyInfo EXCEPT
         !.lists = [NoLists EXCEPT
                       !["install_requires"] = List(<<<<"a">>>>),
                       !["dependency_links"] = List(<<<<"u", "#egg=", "a">>, <<"u", "#egg=", "b">>>>)],
         !.extras_require = extras] :
     extras \in SeqsUpTo(ExtraKeys \X (SeqsUpTo(ReqTexts, MaxReqs) \ {<<>>}),
                         MaxExtras)}

AnyRuns == PrimaryRuns
GoodRuns == {[reaches |-> TRUE, ends |-> "return"]}

\* Scripts of every source text and behaviour, with three metadata objects.
LoadScripts ==
    [source : SeqsUpTo(SourceTokens, MaxSrc), runs : {AnyRuns},
     fallbacks : {FallbackRuns}, meta : {EmptyInfo, FullInfo, BadInfo}]

\* Well-behaved scripts, one rewritable and one not, of every metadata.
MetaScripts ==
    [source : {<<"setup", "(">>, <<"x", "(">>}, runs : {GoodRuns},
     fallbacks : {{"distribution"}},
     meta : NameVersionInfos \cup InstallInfos \cup ExtrasInfos]

(***************************************************************************)
(* can_parse, lines 62-71.                                                 *)
(***************************************************************************)
\* The tokens of a content: 'setuptools' is "setup" followed by "tools".
ContentTokens == {"setup", "tools", "(", "distutils", "x"}

\* pattern in text
Contains(text, pattern) ==
    \E i \in 0..(Len(text) - Len(pattern)) :
        \A j \in 1..Len(pattern) : text[i + j] = pattern[j]

\* Path(path).name: the last component, '' when there is none.
PathName(path) ==
    IF path.parts = <<>> THEN "" ELSE path.parts[Len(path.parts)]

\* can_parse without lines 67-68: any content that calls setup( is accepted.
CanParseAnySetupCall(path, content) ==
    IF PathName(path) = "setup.py" THEN TRUE
    ELSE IF content = NoneVal \/ content = <<>> THEN FALSE
    ELSE Contains(content, <<"setup", "(">>)

CanParse(path, content) ==
    IF PathName(path) = "setup.py" THEN TRUE
    ELSE IF content = NoneVal \/ content = <<>> THEN FALSE
    ELSE IF /\ ~Contains(content, <<"setup", "tools">>)
            /\ ~Contains(content, <<"distutils">>)
         THEN FALSE
    ELSE Contains(content, <<"setup", "(">>)

CanParseCall ==
    /\ pc = "can_parse"
    /\ ret' = [kind |-> "bool", value |-> CanParse(args.path, args.content)]
    /\ pc' = "done"
    /\ UNCHANGED <<args, script, log, trace, info>>

\* The paths and contents can_parse is called on; a path is given as a str
\* or as a Path.
Paths ==
    [is_str : BOOLEAN,
     parts : {<<>>, <<"setup.py">>, <<"pkg", "setup.py">>, <<"setup.py", "x.py">>,
              <<"x.py">>, <<"setup.pyc">>}]

NoScript ==
    [source |-> <<>>, runs |-> {}, fallbacks |-> {}, meta |-> EmptyInfo]

InitCanParse ==
    /\ pc = "can_parse"
    /\ args \in [op : {"can_parse"}, path : Paths,
                 content : SeqsUpTo(ContentTokens, MaxContent) \cup {NoneVal}]
    /\ script = NoScript
    /\ log = <<>>
    /\ trace = <<>>
    /\ info = NoInfo
    /\ ret = NoResult

(***************************************************************************)
(* dumps, lines 155-253, with _format_req and _format_link.                *)
(*                                                                         *)
(* A requirement has raw_name, name, extras, version, markers, main_envs   *)
(* (its extras-environments), link (dep.link) and release.  A link is      *)
(* NoLink or a record of its kind, short form, vcs and rev.  The generated *)
(* text is kept as the ordered (name, value) pairs of the keyword          *)
(* arguments and the readme assignment; the optional code formatters only  *)
(* change the layout of the text.                                          *)
(***************************************************************************)
NoLink == [kind |-> "none", short |-> <<>>, vcs |-> "", rev |-> <<>>]
NoRelease == [some |-> FALSE, version |-> ""]
Release(version) == [some |-> TRUE, version |-> version]

\* _format_req, lines 316-325.
FormatReq(req) ==
    req.raw_name
      \o (IF req.extras # <<>> THEN <<"[">> \o Join(req.extras, ",") \o <<"]">>
          ELSE <<>>)
      \o (IF req.version # <<>> THEN req.version ELSE <<>>)
      \o (IF req.markers # <<>> THEN <<"; ">> \o req.markers ELSE <<>>)

\* _format_link with the egg fragment appended to every kind of link, file
\* and directory links included.
FormatLinkEggEverywhere(req) ==
    LET link == req.link
        egg == <<"#egg=">> \o req.name
                 \o (IF req.release.some THEN <<"-", req.release.version>>
                     ELSE <<>>)
    IN  IF link.kind \in {"file", "dir"}
        THEN [raised |-> FALSE, text |-> link.short \o egg]
        ELSE IF link.kind = "vcs"
        THEN [raised |-> FALSE,
              text |-> <<link.vcs, "+">> \o link.short
                         \o (IF link.rev # <<>> THEN <<"@">> \o link.rev
                             ELSE <<>>)
                         \o egg]
        ELSE IF link.kind = "url"
        THEN [raised |-> FALSE, text |-> link.short \o egg]
        ELSE [raised |-> TRUE, text |-> <<>>]

\* _format_link, lines 327-346; [raised |-> TRUE] for the ValueError.
FormatLink(req) ==
    LET link == req.link
        egg == <<"#egg=">> \o req.name
                 \o (IF req.release.some THEN <<"-", req.release.version>>
                     ELSE <<>>)
    IN  IF link.kind \in {"file", "dir"}
        THEN [raised |-> FALSE, text |-> link.short]
        ELSE IF link.kind = "vcs"
        THEN [raised |-> FALSE,
              text |-> <<link.vcs, "+">> \o link.short
                         \o (IF link.rev # <<>> THEN <<"@">> \o link.rev
                             ELSE <<>>)
                         \o egg]
        ELSE IF link.kind = "url"
        THEN [raised |-> FALSE, text |-> link.short \o egg]
        ELSE [raised |-> TRUE, text |-> <<>>]

\* One (name, value) pair of the keyword arguments, when cond holds.
Field(cond, name, value) ==
    IF cond THEN <<[name |-> name, value |-> value]>> ELSE <<>>

\* sorted(...) of names drawn from the sequence order, which lists them in
\* increasing order.
Sorted(names, order) == SelectSeq(order, LAMBDA n : n \in names)

PackageOrder == <<"a", "a.sub", "b">>
PathOrder == <<"*.json", "*.txt">>
EnvOrder == <<"dev", "docs", "test">>
GroupOrder == <<"console_scripts", "gui_scripts">>

\* The pairs of the project's own fields, lines 159-202.
ProjectFields(project) ==
    Field(TRUE, "name", project.raw_name)
      \o Field(TRUE, "version", project.version)
      \o Field(project.description # <<>>, "description", project.description)
      \o Field(project.python # <<>>, "python_requires", project.python)
      \o Field("home" \in DOMAIN project.links, "url", project.links["home"])
      \o Field("download" \in DOMAIN project.links, "download_url",
               project.links["download"])
      \o Field(DOMAIN project.links # {}, "project_urls", project.links)
      \o Field(Len(project.authors) > 0, "author", project.authors[1].name)
      \o Field(Len(project.authors) > 0 /\ Truthy(project.authors[1].mail),
               "author_email", project.authors[1].mail)
      \o Field(Len(project.authors) > 1, "maintainer", project.authors[2].name)
      \o Field(Len(project.authors) > 1 /\ Truthy(project.authors[2].mail),
               "maintainer_email", project.authors[2].mail)
      \o Field(project.license # <<>>, "license", project.license)
      \o Field(project.keywords # <<>>, "keywords", Join(project.keywords, " "))
      \o Field(project.classifiers # <<>>, "classifiers", project.classifiers)
      \o Field(project.platforms # <<>>, "platforms", project.platforms)
      \o Field(project.entrypoints # <<>>, "entry_points",
               [group \in {e.group : e \in Range(project.entrypoints)} |->
                   LET InGroup(e) == e.group = group
                       chosen == SelectSeq(project.entrypoints, InGroup)
                   IN  [k \in 1..Len(chosen) |-> chosen[k].text]])

\* Lines 204-212 with package_dir written for every project, as package_data
\* is.
PackageFieldsWithDir(package) ==
    Field(TRUE, "packages", Sorted(Range(package.packages), PackageOrder))
      \o Field(TRUE, "package_dir", package.package_dir)
      \o Field(TRUE, "package_data",
               [module \in {rule.module : rule \in Range(package.data)} |->
                   Sorted({rule.relative : rule \in
                              {r \in Range(package.data) : r.module = module}},
                          PathOrder)])

\* The pairs of the package, lines 204-212.
PackageFields(package) ==
    Field(TRUE, "packages", Sorted(Range(package.packages), PackageOrder))
      \o Field(DOMAIN package.package_dir # {}, "package_dir",
               package.package_dir)
      \o Field(TRUE, "package_data",
               [module \in {rule.module : rule \in Range(package.data)} |->
                   Sorted({rule.relative : rule \in
                              {r \in Range(package.data) : r.module = module}},
                          PathOrder)])

\* Line 215 without its filter: every requirement in install_requires.
InstallRequiresAll(reqs) == [k \in 1..Len(reqs) |-> FormatReq(reqs[k])]

\* reqs_list, line 215.
InstallRequires(reqs) ==
    LET NoEnvs(req) == req.main_envs = {}
        chosen == SelectSeq(reqs, NoEnvs)
    IN  [k \in 1..Len(chosen) |-> FormatReq(chosen[k])]

\* links, lines 219-222: the formatted link of every requirement that has
\* one.
DependencyLinks(reqs) ==
    LET HasLink(req) == req.link # NoLink
        chosen == SelectSeq(reqs, HasLink)
    IN  [k \in 1..Len(chosen) |-> FormatLink(chosen[k])]

\* extras, lines 227-232.
ExtrasRequire(reqs) ==
    [env \in UNION {req.main_envs : req \in Range(reqs)} |->
        LET InEnv(req) == env \in req.main_envs
            chosen == SelectSeq(reqs, InEnv)
        IN  [k \in 1..Len(chosen) |-> FormatReq(chosen[k])]]

\* The value dumps returns: the error of _format_link, or the text.
DumpsResult(reqs, project) ==
    LET links == DependencyLinks(reqs)
        extras == ExtrasRequire(reqs)
    IN  IF \E k \in 1..Len(links) : links[k].raised
        THEN Raised("ValueError")
        ELSE [kind |-> "text",
              kwargs |->
                  ProjectFields(project)
                    \o PackageFields(project.package)
                    \o Field(TRUE, "install_requires", InstallRequires(reqs))
                    \o Field(links # <<>>, "dependency_links",
                             [k \in 1..Len(links) |-> links[k].text])
                    \o Field(DOMAIN extras # {}, "extras_require", extras),
              readme |-> IF project.readme = NoneVal THEN <<"readme = ''">>
                         ELSE <<"readme = ">> \o project.readme]

Dumps ==
    /\ pc = "dumps"
    /\ ret' = DumpsResult(args.reqs, args.project)
    /\ pc' = IF args.op = "roundtrip" /\ ret'.kind = "text" THEN "write"
             ELSE "done"
    /\ UNCHANGED <<args, script, log, trace, info>>

(***************************************************************************)
(* The generated script, as load finds it.                                 *)
(***************************************************************************)
\* TEMPLATE, lines 38-56: the two imports of setup and the call.
TemplateSource == <<"x", "setup", "\n", "x", "setup", "\n", "setup", "(">>

HasField(kwargs, name) == \E k \in 1..Len(kwargs) : kwargs[k].name = name

FieldValue(kwargs, name) ==
    kwargs[CHOOSE k \in 1..Len(kwargs) : kwargs[k].name = name].value

\* A mapping as the sequence of its items in the order of its sorted keys
\* (json_dumps(value, sort_keys=True), line 242).
Items(mapping, order) ==
    LET keys == Sorted(DOMAIN mapping, order)
    IN  [k \in 1..Len(keys) |-> <<keys[k], mapping[keys[k]]>>]

\* Distribution(dist), line 286, for the keyword arguments of a generated
\* script.
DistributionOf(kwargs) ==
    LET Text(name) ==
            IF HasField(kwargs, name) THEN FieldValue(kwargs, name) ELSE NoneVal
        Listed(name) ==
            IF HasField(kwargs, name) THEN List(FieldValue(kwargs, name))
            ELSE NoList
        extras == IF HasField(kwargs, "extras_require")
                  THEN Items(FieldValue(kwargs, "extras_require"), EnvOrder)
                  ELSE <<>>
    IN  [metadata |-> [f \in GetFields |-> Text(f)],
         top |-> NoMetadata,
         lists |-> [f \in ListFields |->
                       IF f = "keywords"
                       THEN (IF HasField(kwargs, f)
                             THEN StrList(FieldValue(kwargs, f)) ELSE NoList)
                       ELSE Listed(f)],
         entry_points |->
             IF HasField(kwargs, "entry_points")
             THEN Items(FieldValue(kwargs, "entry_points"), GroupOrder)
             ELSE <<>>,
         extras_require |->
             [k \in 1..Len(extras) |-> <<<<extras[k][1]>>, extras[k][2]>>]]

\* The text of dumps becomes the script that load is called on.
WriteScript ==
    /\ pc = "write"
    /\ script' = [source |-> TemplateSource,
                  runs |-> {[reaches |-> TRUE, ends |-> "return"]},
                  fallbacks |-> {"distribution"},
                  meta |-> DistributionOf(ret.kwargs)]
    /\ pc' = "execute"
    /\ UNCHANGED <<args, log, trace, info, ret>>

(***************************************************************************)
(* The projects and requirements dumps is called on.                       *)
(***************************************************************************)
MaxDumpReqs == 2

NoPackage == [packages |-> <<"a">>, package_dir |-> <<>>, data |-> <<>>]

MinimalProject ==
    [raw_name |-> <<"a">>, version |-> <<"1.0">>, description |-> <<>>,
     python |-> <<>>, links |-> <<>>, authors |-> <<>>, license |-> <<>>,
     keywords |-> <<>>, classifiers |-> <<>>, platforms |-> <<>>,
     entrypoints |-> <<>>, package |-> NoPackage, readme |-> NoneVal]

Me == [name |-> <<"me">>, mail |-> <<"me@x">>]
You == [name |-> <<"you">>, mail |-> NoneVal]
Them == [name |-> <<"them">>, mail |-> <<"them@x">>]

\* Projects of every combination of present and absent fields.
FieldProjects ==
    [raw_name : {<<"a">>}, version : {<<"1.0">>},
     description : {<<>>, <<"text">>},
     python : {<<>>, <<">=3.5">>},
     links : {<<>>, [home |-> <<"h">>],
              [download |-> <<"d">>, repository |-> <<"r">>]},
     authors : {<<>>, <<You>>, <<Me, You>>, <<Me, You, Them>>},
     license : {<<>>, <<"MIT">>},
     keywords : {<<>>, <<<<"k1">>, <<"k2">>>>},
     classifiers : {<<>>, <<<<"c1">>>>},
     platforms : {<<>>, <<<<"p1">>>>},
     entrypoints : {<<>>, <<[group |-> "gui_scripts", text |-> <<"g = a:g">>],
                          [group |-> "console_scripts", text |-> <<"c = a:c">>],
                          [group |-> "gui_scripts", text |-> <<"h = a:h">>]>>},
     package : {NoPackage,
                [packages |-> <<"b", "a.sub", "a">>,
                 package_dir |-> [root |-> "src"], data |-> <<>>],
                [packages |-> <<"a">>, package_dir |-> <<>>,
                 data |-> <<[module |-> "a", relative |-> "*.txt"],
                            [module |-> "a", relative |-> "*.json"]>>]},
     readme : {NoneVal}]

\* raw_name and name of the requirements.
ReqNames == {[raw_name |-> <<"A">>, name |-> <<"a">>],
             [raw_name |-> <<"b">>, name |-> <<"b">>],
             [raw_name |-> <<"a", "-", "b">>, name |-> <<"a", "-", "b">>]}

PlainReq(n) ==
    [raw_name |-> n.raw_name, name |-> n.name, extras |-> <<>>,
     version |-> <<>>, markers |-> <<>>, main_envs |-> {}, link |-> NoLink,
     release |-> NoRelease]

\* Requirements that vary what _format_req writes and the environments.
EnvReqs ==
    {[PlainReq(n) EXCEPT !.extras = d.extras, !.version = d.version,
                         !.markers = d.markers, !.main_envs = envs] :
     n \in ReqNames,
     d \in {[extras |-> <<>>, version |-> <<>>, markers |-> <<>>],
            [extras |-> <<<<"e1">>, <<"e2">>>>, version |-> <<">=1">>,
             markers |-> <<>>],
            [extras |-> <<>>, version |-> <<>>, markers |-> <<"m">>]},
     envs \in {{}, {"test"}, {"docs", "test"}}}

Links ==
    {[kind |-> "file", short |-> <<"./a.tar">>, vcs |-> "", rev |-> <<>>],
     [kind |-> "dir", short |-> <<"./dir">>, vcs |-> "", rev |-> <<>>],
     [kind |-> "vcs", short |-> <<"u">>, vcs |-> "git", rev |-> <<"r1">>],
     [kind |-> "vcs", short |-> <<"u">>, vcs |-> "git", rev |-> <<>>],
     [kind |-> "url", short |-> <<"u">>, vcs |-> "", rev |-> <<>>],
     [kind |-> "other", short |-> <<"u">>, vcs |-> "", rev |-> <<>>]}

\* Requirements that vary the link, the release and the environments.
LinkReqs ==
    {[PlainReq(n) EXCEPT !.link = l, !.release = r, !.main_envs = envs] :
     n \in ReqNames, l \in Links \cup {NoLink},
     r \in {NoRelease, Release("1.0")}, envs \in {{}, {"test"}}}

\* The sequences of at most n requirements of S with different names.
ReqLists(S, n) ==
    {reqs \in SeqsUpTo(S, n) :
        \A i, j \in 1..Len(reqs) : i # j => reqs[i].name # reqs[j].name}

InitDumps ==
    /\ pc = "dumps"
    /\ \/ args \in [op : {"dumps"}, reqs : {<<>>}, project : FieldProjects]
       \/ args \in [op : {"dumps"}, reqs : ReqLists(EnvReqs, MaxDumpReqs),
                    project : {MinimalProject}]
       \/ args \in [op : {"dumps"}, reqs : ReqLists(LinkReqs, MaxDumpReqs),
                    project : {MinimalProject}]
    /\ script = NoScript
    /\ log = <<>>
    /\ trace = <<>>
    /\ info = NoInfo
    /\ ret = NoResult

\* Projects and requirements that are dumped and loaded again.
FullProject ==
    [MinimalProject EXCEPT
        !.description = <<"text">>, !.license = <<"MIT">>,
        !.keywords = <<<<"k1">>, <<"k2">>>>, !.classifiers = <<<<"c1">>>>,
        !.platforms = <<<<"p1">>>>, !.python = <<">=3.5">>,
        !.authors = <<Me, Them>>,
        !.entrypoints = <<[group |-> "console_scripts", text |-> <<"c = a:c">>]>>]

RoundTripProjects ==
    {MinimalProject, FullProject,
     [FullProject EXCEPT !.links = [home |-> <<"h">>, download |-> <<"d">>]],
     [FullProject EXCEPT !.links = [home |-> <<"h">>, repository |-> <<"r">>]]}

RoundTripReqs ==
    {[PlainReq(n) EXCEPT !.version = v, !.main_envs = envs, !.link = l] :
     n \in {m \in ReqNames : m.raw_name = m.name /\ "-" \notin Range(m.name)}
              \cup {[raw_name |-> <<"a">>, name |-> <<"a">>]},
     v \in {<<>>, <<">=1">>}, envs \in {{}, {"test"}},
     l \in {NoLink,
            [kind |-> "vcs", short |-> <<"u">>, vcs |-> "git", rev |-> <<"r1">>],
            [kind |-> "url", short |-> <<"u">>, vcs |-> "", rev |-> <<>>]}}

InitRoundTrip ==
    /\ pc = "dumps"
    /\ args \in [op : {"roundtrip"},
                 reqs : ReqLists(RoundTripReqs, MaxDumpReqs),
                 project : RoundTripProjects]
    /\ script = NoScript
    /\ log = <<>>
    /\ trace = <<>>
    /\ info = NoInfo
    /\ ret = NoResult

InitLoad ==
    /\ pc = "execute"
    /\ args = [op |-> "load"]
    /\ script \in LoadScripts \cup MetaScripts
    /\ log = <<>>
    /\ trace = <<>>
    /\ info = NoInfo
    /\ ret = NoResult

Init == InitLoad \/ InitCanParse \/ InitDumps \/ InitRoundTrip

Next ==
    Execute \/ Fallback \/ BuildRoot \/ CanParseCall \/ Dumps \/ WriteScript

Spec == Init /\ [][Next]_vars

(***************************************************************************)
(* Properties of load.                                                     *)
(***************************************************************************)
LoadDone == args.op = "load" /\ pc = "done"

\* What load was left to do after _execute: the fallback ran or the model
\* was built.
AfterExecute == args.op = "load" /\ pc \in {"build", "done"}

\* The rewritten script raised an Exception while it was executed.
PrimaryRaised ==
    /\ "exec" \in Range(trace)
    /\ \E i \in 1..Len(trace) :
           trace[i] = "Exception" /\ \A j \in 1..i : trace[j] # "run_setup"

FallbackInvoked == "run_setup" \in Range(trace)

C2_FallbackIffNoCapture ==
    LET unchanged == Rewrite(script.source) = script.source
        runs == {i \in 1..Len(trace) : trace[i] = "run_setup"}
        execs == {i \in 1..Len(trace) : trace[i] = "exec"}
    IN  /\ Cardinality(runs) <= 1
        /\ Cardinality(execs) <= 1
        /\ \A i \in runs : \A j \in execs : j < i
        /\ (args.op \in {"load", "roundtrip"} /\ pc \in {"check", "build", "done"}) =>
              /\ unchanged => execs = {} /\ log = <<"cannot modify source">>
              /\ ~unchanged => execs # {} /\ "cannot modify source" \notin Range(log)
        /\ AfterExecute =>
              /\ FallbackInvoked <=>
                    \/ unchanged
                    \/ "distribution was not called" \in Range(log)
              /\ (info.kind = "dist" /\ info.via = "captured") =>
                    /\ ~FallbackInvoked
                    /\ "call" \in Range(trace)
                    /\ HasCapture(Rewrite(script.source))
              /\ (pc = "done" /\ ret.kind = "root" /\ ~FallbackInvoked) =>
                    /\ info.via = "captured"
                    /\ ret.root = MakeRoot(script.meta)

\* The rewritten script ran without reaching the capture, the fallback ran
\* after it and gave the model.
C2_Witness ==
    /\ LoadDone
    /\ ret.kind = "root"
    /\ trace = <<"exec", "run_setup">>
    /\ log = <<"distribution was not called">>

\* C3, as the specification states it: whenever the rewritten script raises
\* an exception, before or after the registration call was reached, the
\* exception is logged, the outcome is 'capture not set' and the fallback is
\* triggered.
C3_ExceptionTriggersFallback ==
    (AfterExecute /\ PrimaryRaised) =>
        /\ "Exception: message" \in Range(log)
        /\ "distribution was not called" \in Range(log)
        /\ FallbackInvoked

\* C3, amended: an Exception raised by the rewritten script is caught and
\* logged with its type and message; the fallback is triggered when the
\* capture variable was not set before the exception, and when it was set
\* (the rewritten registration call was reached first) the captured
\* arguments are used and the fallback is not invoked.
C3_ExceptionLoggedFallbackIfUnset ==
    (AfterExecute /\ PrimaryRaised) =>
        LET set == "call" \in Range(trace) /\ HasCapture(Rewrite(script.source))
        IN  /\ log[1] = "Exception: message"
            /\ ~set => /\ log = <<"Exception: message", "distribution was not called">>
                       /\ FallbackInvoked
            /\ set => /\ log = <<"Exception: message">>
                      /\ ~FallbackInvoked
                      /\ info.kind = "dist" /\ info.via = "captured"

\* The rewritten script raised after the capture variable was set, and load
\* returned the model of the captured arguments without the fallback.
C3_Witness ==
    /\ LoadDone
    /\ ret.kind = "root"
    /\ trace = <<"exec", "call", "Exception">>
    /\ log = <<"Exception: message">>

\* What the metadata object declares for a text field, blanks dropped.
Declared(msg, name) ==
    {Strip(v) : v \in {msg.metadata[name], msg.top[name]} \ {NoneVal}}

\* C8, as the specification states it: every model load returns has a
\* non-empty name, and its version is the declared one or the 'unreleased'
\* sentinel.
C8_NameAndVersionPresent ==
    (LoadDone /\ ret.kind = "root") =>
        /\ ret.root.raw_name # <<>>
        /\ ret.root.version \in Declared(info.dist, "version") \cup {<<"unreleased">>}

\* C8, amended: every model load returns has a version, the declared one or
\* the default '0.0.0'; its name is the declared name and is empty when the
\* metadata declares none.
C8_VersionPresentNameMayBeEmpty ==
    (LoadDone /\ ret.kind = "root") =>
        /\ ret.root.version # <<>>
        /\ ret.root.version \in Declared(info.dist, "version") \cup {<<"0.0.0">>}
        /\ Declared(info.dist, "version") \subseteq {<<>>, <<"UNKNOWN">>}
               => ret.root.version = <<"0.0.0">>
        /\ ret.root.raw_name \in Declared(info.dist, "name") \cup {<<>>}
        /\ Declared(info.dist, "name") \subseteq {<<>>, <<"UNKNOWN">>}
               => ret.root.raw_name = <<>>

\* The metadata declares neither name nor version: the model has an empty
\* name and the default version.
C8_Witness ==
    /\ LoadDone
    /\ ret.kind = "root"
    /\ Declared(info.dist, "name") = {}
    /\ Declared(info.dist, "version") = {}
    /\ ret.root.raw_name = <<>>
    /\ ret.root.version = <<"0.0.0">>

\* The (key, requirement) pairs of extras_require in the order of iteration.
RECURSIVE ExtrasPairs(_)
ExtrasPairs(extras) ==
    IF extras = <<>> THEN <<>>
    ELSE [i \in 1..Len(extras[1][2]) |->
             [key |-> extras[1][1], req |-> extras[1][2][i]]]
         \o ExtrasPairs(Tail(extras))

\* C9: every requirement under a key of extras_require is attached with the
\* marker of the key and with the environments {dev} when the extras name is
\* 'dev', {main, name} otherwise; the requirements of install_requires are
\* attached without marker and without environments and are the only ones
\* that receive a URL of the dependency links.
C9_ExtrasEnvironments ==
    (LoadDone /\ ret.kind = "root") =>
        LET deps == ret.root.deps
            installed == GetList(info.dist, "install_requires")
            links == GetList(info.dist, "dependency_links")
            pairs == ExtrasPairs(info.dist.extras_require)
            n == Len(installed)
        IN  /\ Len(deps) = n + Len(pairs)
            /\ \A i \in 1..n :
                   /\ deps[i].req = installed[i]
                   /\ deps[i].passed = {"url"}
                   /\ deps[i].marker = NoneVal
                   /\ deps[i].envs = {}
                   /\ deps[i].url \in Range(links) \cup {NoneVal}
            /\ \A i \in 1..Len(pairs) :
                   LET dep == deps[n + i]
                       key == pairs[i].key
                       name == IF ":" \in Range(key) THEN Before(key, ":") ELSE key
                   IN  /\ dep.req = pairs[i].req
                       /\ dep.passed = {"marker", "envs"}
                       /\ dep.url = NoneVal
                       /\ dep.marker = IF ":" \in Range(key) THEN After(key, ":")
                                       ELSE NoneVal
                       /\ name = <<"dev">> => dep.envs = {<<"dev">>}
                       /\ name # <<"dev">> => dep.envs = {<<"main">>, name}

\* A requirement of install_requires received a URL, and a requirement of a
\* 'dev' key with a marker was attached to {dev} alone.
C9_Witness ==
    /\ LoadDone
    /\ ret.kind = "root"
    /\ \E i \in 1..Len(ret.root.deps) :
           /\ ret.root.deps[i].url # NoneVal
           /\ ret.root.deps[i].passed = {"url"}
    /\ \E i \in 1..Len(ret.root.deps) :
           /\ ret.root.deps[i].envs = {<<"dev">>}
           /\ ret.root.deps[i].marker = <<"m">>

(***************************************************************************)
(* Properties of can_parse.                                                *)
(***************************************************************************)
\* C4: can_parse is true for every path whose file name is 'setup.py',
\* whatever the content; for another name it is false when the content is
\* missing or empty, false when the content mentions neither 'setuptools'
\* nor 'distutils' even with 'setup(' in it, and otherwise true exactly when
\* the content contains 'setup('.
C4_CanParseDecision ==
    (args.op = "can_parse" /\ pc = "done") =>
        LET parts == args.path.parts
            content == args.content
            canonical == parts # <<>> /\ parts[Len(parts)] = "setup.py"
            missing == content = NoneVal \/ Len(content) = 0
            Pair(first, second) ==
                \E i \in 1..(Len(content) - 1) :
                    content[i] = first /\ content[i + 1] = second
            toolchain == Pair("setup", "tools") \/ "distutils" \in Range(content)
        IN  /\ ret.kind = "bool"
            /\ canonical => ret.value
            /\ (~canonical /\ missing) => ~ret.value
            /\ (~canonical /\ ~missing /\ ~toolchain) => ~ret.value
            /\ (~canonical /\ ~missing /\ toolchain) =>
                   (ret.value <=> Pair("setup", "("))

\* A file of another name whose content calls setup( but mentions no
\* toolchain is refused.
C4_Witness ==
    /\ args.op = "can_parse"
    /\ pc = "done"
    /\ args.path.parts = <<"setup.py", "x.py">>
    /\ args.content = <<"x", "setup", "(">>
    /\ ~ret.value

(***************************************************************************)
(* Properties of dumps.                                                    *)
(***************************************************************************)
DumpsReturned == args.op = "dumps" /\ pc = "done" /\ ret.kind = "text"

\* The value of a keyword argument of the text, or the value when absent.
Written(name, absent) ==
    IF HasField(ret.kwargs, name) THEN FieldValue(ret.kwargs, name) ELSE absent

\* The requirements at the positions idx, in input order, as _format_req
\* writes them.
Formatted(reqs, idx) ==
    LET Pos(k) == CHOOSE i \in idx : Cardinality({j \in idx : j <= i}) = k
    IN  [k \in 1..Cardinality(idx) |-> FormatReq(reqs[Pos(k)])]

\* C5: dumps partitions the requirements by extras-environment: a
\* requirement is listed in install_requires if and only if it has none, and
\* otherwise under extras_require[e] for exactly every environment e it
\* declares; none is in both, none is dropped, the input order is kept in
\* each list, and extras_require is absent when no requirement has an
\* extras-environment.
C5_PartitionByEnvironment ==
    DumpsReturned =>
        LET reqs == args.reqs
            all == 1..Len(reqs)
            installed == Written("install_requires", <<>>)
            extras == Written("extras_require", <<>>)
            envs == UNION {reqs[i].main_envs : i \in all}
        IN  /\ HasField(ret.kwargs, "install_requires")
            /\ installed = Formatted(reqs, {i \in all : reqs[i].main_envs = {}})
            /\ HasField(ret.kwargs, "extras_require") <=> envs # {}
            /\ DOMAIN extras = envs
            /\ \A e \in envs :
                   extras[e] = Formatted(reqs, {i \in all : e \in reqs[i].main_envs})
            /\ \A i \in all :
                   /\ reqs[i].main_envs = {} <=>
                          FormatReq(reqs[i]) \in Range(installed)
                   /\ \A e \in envs :
                          e \in reqs[i].main_envs <=>
                              FormatReq(reqs[i]) \in Range(extras[e])

\* One requirement of two environments and one of none were dumped.
C5_Witness ==
    /\ DumpsReturned
    /\ Len(args.reqs) = 2
    /\ args.reqs[1].main_envs = {"docs", "test"}
    /\ args.reqs[2].main_envs = {}
    /\ Len(Written("install_requires", <<>>)) = 1
    /\ DOMAIN Written("extras_require", <<>>) = {"docs", "test"}

\* C6: dumps renders one dependency_links entry for every requirement that
\* has a link, whatever its environments: a file or directory link as its
\* short form alone, a VCS link as vcs+short[@rev]#egg=name[-version], a URL
\* link as short#egg=name[-version]; a link of another kind makes dumps raise
\* and return no text.
C6_DependencyLinks ==
    (args.op = "dumps" /\ pc = "done") =>
        LET reqs == args.reqs
            linked == {i \in 1..Len(reqs) : reqs[i].link.kind # "none"}
            Pos(k) == CHOOSE i \in linked : Cardinality({j \in linked : j <= i}) = k
            Egg(req) == <<"#egg=">> \o req.name
                          \o (IF req.release.some THEN <<"-", req.release.version>>
                              ELSE <<>>)
            Rev(link) == IF link.rev = <<>> THEN <<>> ELSE <<"@">> \o link.rev
            Entry(req) ==
                CASE req.link.kind \in {"file", "dir"} -> req.link.short
                  [] req.link.kind = "vcs" ->
                         <<req.link.vcs, "+">> \o req.link.short
                           \o Rev(req.link) \o Egg(req)
                  [] req.link.kind = "url" -> req.link.short \o Egg(req)
            unsupported ==
                \E i \in linked : reqs[i].link.kind \notin {"file", "dir", "vcs", "url"}
        IN  /\ unsupported => ret.kind = "raised"
            /\ ~unsupported =>
                   /\ ret.kind = "text"
                   /\ Len(Written("dependency_links", <<>>)) = Cardinality(linked)
                   /\ \A k \in 1..Cardinality(linked) :
                          Written("dependency_links", <<>>)[k] = Entry(reqs[Pos(k)])

\* A VCS link without rev of a requirement without release, in an
\* extras-environment, was rendered.
C6_Witness ==
    /\ DumpsReturned
    /\ Len(args.reqs) = 2
    /\ args.reqs[1].link.kind = "vcs"
    /\ args.reqs[1].link.rev = <<>>
    /\ ~args.reqs[1].release.some
    /\ args.reqs[1].main_envs = {"test"}
    /\ args.reqs[2].link.kind = "vcs"
    /\ args.reqs[2].link.rev # <<>>
    /\ args.reqs[2].release.some
    /\ Len(Written("dependency_links", <<>>)) = 2

\* The fields of the project that dumps writes when they are present, with
\* what decides each.
OptionalFieldsWritten ==
    LET project == args.project
        Has(name) == HasField(ret.kwargs, name)
        authors == project.authors
    IN  /\ Has("name") /\ Written("name", <<>>) = project.raw_name
        /\ Has("version") /\ Written("version", <<>>) = project.version
        /\ Has("packages")
        /\ Range(Written("packages", <<>>)) = Range(project.package.packages)
        /\ \A i, j \in 1..Len(Written("packages", <<>>)) :
               i < j =>
                   \E a, b \in 1..Len(PackageOrder) :
                       /\ a < b
                       /\ PackageOrder[a] = Written("packages", <<>>)[i]
                       /\ PackageOrder[b] = Written("packages", <<>>)[j]
        /\ Has("description") <=> project.description # <<>>
        /\ Has("python_requires") <=> project.python # <<>>
        /\ Has("url") <=> "home" \in DOMAIN project.links
        /\ Has("download_url") <=> "download" \in DOMAIN project.links
        /\ Has("project_urls") <=> DOMAIN project.links # {}
        /\ Has("author") <=> Len(authors) >= 1
        /\ Has("author") => Written("author", <<>>) = authors[1].name
        /\ Has("author_email") <=> (Len(authors) >= 1 /\ Truthy(authors[1].mail))
        /\ Has("maintainer") <=> Len(authors) >= 2
        /\ Has("maintainer") => Written("maintainer", <<>>) = authors[2].name
        /\ Has("maintainer_email") <=> (Len(authors) >= 2 /\ Truthy(authors[2].mail))
        /\ \A k \in 1..Len(ret.kwargs) :
               ret.kwargs[k].name \in {"author", "maintainer", "author_email",
                                       "maintainer_email"}
                   => \A i \in 3..Len(authors) :
                          ret.kwargs[k].value \notin {authors[i].name, authors[i].mail}
        /\ Has("license") <=> project.license # <<>>
        /\ Has("keywords") <=> project.keywords # <<>>
        /\ Has("classifiers") <=> project.classifiers # <<>>
        /\ Has("platforms") <=> project.platforms # <<>>
        /\ Has("entry_points") <=> project.entrypoints # <<>>
        /\ Has("package_dir") <=> DOMAIN project.package.package_dir # {}

\* C10, as the specification states it: dumps emits name, version and the
\* sorted package list always and every other project field only when its
\* value is present and non-empty; package_dir and package_data are absent
\* when the project has no package-directory mapping and no data rules; only
\* the first two authors are written.
C10_FieldsOnlyWhenPresent ==
    DumpsReturned =>
        /\ OptionalFieldsWritten
        /\ HasField(ret.kwargs, "package_data") <=> args.project.package.data # <<>>

\* C10, amended: as stated, except that package_data is emitted for every
\* project: the mapping of each package that owns data rules to the sorted
\* paths of its rules, which is empty when the project has no data rules.
C10_FieldsOnlyWhenPresentButPackageData ==
    DumpsReturned =>
        /\ OptionalFieldsWritten
        /\ HasField(ret.kwargs, "package_data")
        /\ DOMAIN Written("package_data", <<>>) =
               {rule.module : rule \in Range(args.project.package.data)}
        /\ \A module \in DOMAIN Written("package_data", <<>>) :
               Range(Written("package_data", <<>>)[module]) =
                   {rule.relative : rule \in
                       {r \in Range(args.project.package.data) : r.module = module}}

\* A project of three authors, without description, without package
\* directory and without data rules was dumped: package_data is written, and
\* it is empty.
C10_Witness ==
    /\ DumpsReturned
    /\ Len(args.project.authors) = 3
    /\ args.project.description = <<>>
    /\ args.project.package = NoPackage
    /\ ~HasField(ret.kwargs, "description")
    /\ ~HasField(ret.kwargs, "package_dir")
    /\ HasField(ret.kwargs, "package_data")
    /\ DOMAIN Written("package_data", <<>>) = {}

(***************************************************************************)
(* Dumping a project and loading the generated script.                     *)
(***************************************************************************)
\* C7: loading the script that dumps generated yields a model whose name,
\* version and every optional field that dumps wrote (description, license,
\* keywords, classifiers, platforms, python constraint, links, the first two
\* authors with their mails, entry points, the requirements with their
\* extras-environments and source links) equal those of the original.
C7_RoundTrip ==
    (args.op = "roundtrip" /\ pc = "done" /\ ret.kind = "root") =>
        LET project == args.project
            root == ret.root
        IN  /\ root.raw_name = project.raw_name
            /\ root.version = project.version
            /\ root.description = project.description
            /\ root.license = project.license
            /\ root.keywords = project.keywords
            /\ root.classifiers = project.classifiers
            /\ root.platforms = project.platforms
            /\ root.python = project.python
            /\ root.links = project.links
            /\ Len(root.authors) = Len(project.authors)
            /\ \A i \in 1..Len(root.authors) :
                   /\ root.authors[i].name = project.authors[i].name
                   /\ root.authors[i].mail = project.authors[i].mail
            /\ Range(root.entrypoints) = Range(project.entrypoints)
            /\ Len(root.deps) = Len(args.reqs)
            /\ \A i \in 1..Len(args.reqs) :
                   \E k \in 1..Len(root.deps) :
                       LET req == args.reqs[i]
                           dep == root.deps[k]
                       IN  /\ dep.req = FormatReq(req)
                           /\ dep.envs \ {<<"main">>} =
                                  {<<env>> : env \in req.main_envs}
                           /\ req.link = NoLink => dep.url = NoneVal
                           /\ req.link # NoLink => dep.url = FormatLink(req).text

====
